---- MODULE Spec2Model ----
(***************************************************************************)
(* HTTP response cache with cross-process invalidation.                    *)
(*                                                                         *)
(*   checkCacheMiddleware  (cache gate, read path)                         *)
(*   WebhooksService       (mutation hook, write path)                     *)
(*   cache store, messenger and their callers, as far as the gate and the  *)
(*   hook talk to them                                                     *)
(*                                                                         *)
(* An optional JavaScript value is a set with at most one element:         *)
(* undefined/null is {} and the value v is {v}.                            *)
(***************************************************************************)
EXTENDS Integers, Sequences, FiniteSets, TLC

(* ------------------------------ bounds -------------------------------- *)

\* The simulated clock runs from 0 to MaxTime.
MaxTime == 1

\* A cache fill chooses its ttl in 1..MaxTtl.
MaxTtl == 1

\* Entries the store holds at once (its capacity).
MaxEntries == 1

\* Server processes subscribed to the invalidation bus.
NumProcs == 2

\* Mutation calls made on the WebhooksService.
MaxCalls == 1

(* --------------------------- optional values --------------------------- *)

None == {}

Some(v) == {v}

The(o) == CHOOSE v \in o : TRUE

(* ------------------------------ requests ------------------------------- *)

Methods == {"GET", "POST"}

\* String.prototype.toLowerCase on the verbs that occur.
toLowerCase(m) ==
    CASE m = "GET" -> "get"
      [] m = "POST" -> "post"
      [] OTHER -> m

\* A URL is the sequence of its path segments; req.originalUrl may be
\* undefined (the code reads it with ?.).
GraphqlPrefix == <<"graphql">>

OriginalUrls == {None, Some(<<"items">>), Some(<<"graphql", "system">>)}

\* The request's Cache-Control header.
RequestCacheControl == {None, Some("no-store")}

startsWith(s, prefix) ==
    /\ Len(s) >= Len(prefix)
    /\ SubSeq(s, 1, Len(prefix)) = prefix

\* req.originalUrl?.startsWith('/graphql'): undefined when originalUrl is.
optStartsWithGraphql(url) ==
    IF url = None THEN None ELSE Some(startsWith(The(url), GraphqlPrefix))

\* shouldSkipCache(req): the request carries the bypass directive.
shouldSkipCache(g) == g.cacheControlReq = Some("no-store")

\* The names a query parameter can have, in name order; a query is the
\* sequence of its parameter names in the order the caller wrote them.
ParamNames == <<"a", "b">>

Queries == {<<>>, <<"a", "b">>, <<"b", "a">>}

\* What a request asks for: only the items listing carries parameters.
Targets ==
    {t \in [originalUrl : OriginalUrls, query : Queries] :
        t.query # <<>> <=> t.originalUrl = Some(<<"items">>)}

\* The query with its parameters sorted by name.
sortParams(q) ==
    SelectSeq(ParamNames, LAMBDA n : \E i \in 1..Len(q) : q[i] = n)

\* A fingerprint built from the query as the caller wrote it.
getCacheKey_rawQuery(g) == <<toLowerCase(g.method), g.originalUrl, g.query>>

\* getCacheKey(req): a fingerprint of the method, the path and the sorted
\* query parameters.
getCacheKey(g) == <<toLowerCase(g.method), g.originalUrl, sortParams(g.query)>>

\* The keys responses are stored under.
FillKeys ==
    {getCacheKey([method |-> m, originalUrl |-> t.originalUrl, query |-> t.query]) :
        m \in Methods, t \in Targets}

\* Every key the store can be asked for.
Keys ==
    FillKeys \cup {<<toLowerCase(m), t.originalUrl, t.query>> : m \in Methods, t \in Targets}

(* ------------------------------- payloads ------------------------------ *)

\* A stored response body: res.locals['payload'], an object { data: ... }
\* and so never a falsy value.
Payloads == {"P1", "P2"}

\* JavaScript truthiness of what getCacheValue resolved to.
truthy(o) == o # None /\ The(o) # ""

Procs == 1..NumProcs

(* ------------------------------- state --------------------------------- *)

VARIABLES
    env,            \* CACHE_ENABLED, CACHE_STATUS_HEADER
    cache,          \* getCache().cache: TRUE when a store instance exists
    now,            \* Date.now()
    payloadRec,     \* store: key -> optional payload
    expiryRec,      \* store: key__expires_at -> optional exp
    gate,           \* the request checkCacheMiddleware is handling
    hook,           \* the WebhooksService call in progress
    lastCall,       \* how the latest WebhooksService call ended
    inbox,          \* messenger: process -> optional message awaiting its handler
    round,          \* history of the latest published invalidation
    ctrl            \* the request a permissions handler is serving

vars == <<env, cache, now, payloadRec, expiryRec, gate, hook, lastCall, inbox, round, ctrl>>

StatusHeaderNames == {"", "X-Cache-Status"}

IdleGate ==
    [ pc              |-> "idle",
      method          |-> "GET",
      originalUrl     |-> None,
      query           |-> <<>>,
      cacheControlReq |-> None,
      key             |-> None,
      cachedData      |-> None,
      cacheExpiryDate |-> None,
      cacheTTL        |-> None,
      nextCalls       |-> 0,
      nextError       |-> FALSE,
      jsonCalls       |-> 0,
      body            |-> None,
      statusHeader    |-> None,
      cacheControl    |-> None,
      vary            |-> None,
      reads           |-> 0,     \* getCacheValue calls made
      \* history, written by the actions only
      readFailed      |-> FALSE,
      expiryRead      |-> FALSE,
      stored          |-> None,
      present         |-> FALSE,
      fresh           |-> FALSE,
      afterRound      |-> FALSE,
      \* the lookup began on an entry as set(key, payload, ttl) left it, with
      \* this much of ttl remaining, and no record of the key was written or
      \* dropped while the request was in flight
      sinceSet        |-> None,
      \* the lookup began on an entry whose ttl had elapsed, and the key was
      \* not set again while the request was in flight
      sinceDeadline   |-> FALSE ]

ServiceMethods ==
    {"createOne", "createMany", "updateMany", "deleteMany", "updateOne", "deleteOne"}

IdleHook == [pc |-> "idle", method |-> "createOne", calls |-> 0]

\* A call that has not settled: nothing awaited, published or returned yet.
NewCall ==
    [ state      |-> "pending",
      superOk    |-> FALSE,
      publishes  |-> 0,
      published  |-> "none",
      message    |-> None,
      earlyPublish |-> FALSE,
      result     |-> None ]

NoRound == [published |-> FALSE, delivered |-> {}, cached |-> {}]

\* The permissions routes that write and then read back.
Routes == {"POST /", "PATCH /", "PATCH /:pk"}

\* req.body: an array, an object with keys, an object with a query, or a
\* plain object.
Bodies == {"array", "keys", "query", "object"}

IdleCtrl ==
    [ pc         |-> "idle",
      route      |-> "POST /",
      body       |-> "object",
      mutation   |-> "none",   \* service method awaited for the write
      mutated    |-> "no",     \* "no", "ok" or "failed"
      applied    |-> FALSE,    \* the write is in the permissions table
      readBack   |-> "none",   \* service method awaited for the read-back
      readFailed |-> "no",     \* "no", "forbidden" or "other"
      payload    |-> None,     \* res.locals['payload']
      nextCalls  |-> 0,
      nextError  |-> FALSE ]

Init ==
    /\ env \in [CACHE_ENABLED : BOOLEAN, CACHE_STATUS_HEADER : StatusHeaderNames]
    /\ cache \in BOOLEAN
    /\ now = 0
    /\ payloadRec = [k \in Keys |-> None]
    /\ expiryRec = [k \in Keys |-> None]
    /\ gate = IdleGate
    /\ hook = IdleHook
    /\ lastCall = NewCall
    /\ inbox = [p \in Procs |-> None]
    /\ round = NoRound
    /\ ctrl = IdleCtrl

(* ---------------------------- cache store ------------------------------ *)

\* Keys with a record in the store.
liveKeys == {k \in Keys : payloadRec[k] # None \/ expiryRec[k] # None}

\* The request in flight is looking up one of the keys ks.
lookingUp(ks) ==
    /\ gate.pc \in {"lookup_payload", "lookup_expiry"}
    /\ gate.key # None
    /\ The(gate.key) \in ks

\* The request in flight, once a key in ks was set again.
refilledUnder(ks) ==
    IF lookingUp(ks)
    THEN [gate EXCEPT !.sinceSet = None, !.sinceDeadline = FALSE]
    ELSE gate

\* The request in flight, once a record of a key in ks was dropped.
disturbedUnder(ks) ==
    IF lookingUp(ks) THEN [gate EXCEPT !.sinceSet = None] ELSE gate

\* set(key, payload, ttl): the payload and its companion expiry record.
CacheFill(k, p, ttl) ==
    /\ cache
    /\ Cardinality(liveKeys \ {k}) < MaxEntries
    /\ payloadRec' = [payloadRec EXCEPT ![k] = Some(p)]
    /\ expiryRec' = [expiryRec EXCEPT ![k] = Some(now + ttl)]
    /\ round' = NoRound
    /\ gate' = [refilledUnder({k}) EXCEPT !.afterRound = FALSE]
    /\ UNCHANGED <<env, cache, now, hook, lastCall, inbox, ctrl>>

\* delete(key): idempotent.
CacheDelete(k) ==
    /\ payloadRec' = [payloadRec EXCEPT ![k] = None]
    /\ expiryRec' = [expiryRec EXCEPT ![k] = None]
    /\ gate' = IF k \in liveKeys THEN disturbedUnder({k}) ELSE gate
    /\ UNCHANGED <<env, cache, now, hook, lastCall, inbox, round, ctrl>>

\* expiryTimestamp - now of the entry under k, when it has an expiry record.
remaining(k) ==
    IF expiryRec[k] = None THEN None ELSE Some(The(expiryRec[k]) - now)

\* The entry under k has an expiry record whose timestamp is in the future.
isFresh(k) == expiryRec[k] # None /\ The(expiryRec[k]) > now

\* The entry under k is as set(k, payload, ttl) wrote it: both records, the
\* deadline not reached.
asSet(k) == payloadRec[k] # None /\ isFresh(k)

\* The deadline of both records of an entry has passed.
deadlinePassed(k) ==
    \/ expiryRec[k] # None /\ The(expiryRec[k]) <= now
    \/ expiryRec[k] = None /\ payloadRec[k] # None

\* Natural expiry drops a record some time after its deadline; the two
\* records of an entry are separate keys and are dropped one by one.
ExpirePayload(k) ==
    /\ payloadRec[k] # None
    /\ deadlinePassed(k)
    /\ payloadRec' = [payloadRec EXCEPT ![k] = None]
    /\ gate' = disturbedUnder({k})
    /\ UNCHANGED <<env, cache, now, expiryRec, hook, lastCall, inbox, round, ctrl>>

ExpireExpiry(k) ==
    /\ expiryRec[k] # None
    /\ The(expiryRec[k]) <= now
    /\ expiryRec' = [expiryRec EXCEPT ![k] = None]
    /\ gate' = disturbedUnder({k})
    /\ UNCHANGED <<env, cache, now, payloadRec, hook, lastCall, inbox, round, ctrl>>

Tick ==
    /\ now < MaxTime
    /\ now' = now + 1
    /\ UNCHANGED <<env, cache, payloadRec, expiryRec, gate, hook, lastCall, inbox, round, ctrl>>

(* ----------------------------- cache gate ------------------------------ *)

\* return next()
next(g) == [g EXCEPT !.pc = "done", !.nextCalls = @ + 1]

\* asyncHandler: a rejection of the handler is passed on as next(err).
asyncHandlerCatch(g) ==
    [g EXCEPT !.pc = "done", !.nextCalls = @ + 1, !.nextError = TRUE]

\* if (env['CACHE_STATUS_HEADER']) res.setHeader(..., value)
setStatusHeader(g, value) ==
    IF env.CACHE_STATUS_HEADER # ""
    THEN [g EXCEPT !.statusHeader = Some(value)]
    ELSE g

\* line 13
skipMethod(g) ==
    /\ toLowerCase(g.method) # "get"
    /\ optStartsWithGraphql(g.originalUrl) = Some(FALSE)

\* The CACHE_ENABLED check missing.
skipDisabled_never == FALSE

\* line 14
skipDisabled == env.CACHE_ENABLED # TRUE

\* line 15
skipNoCache == ~cache

\* The bypass check missing.
skipRequested_never(g) == FALSE

\* line 17
skipRequested(g) == shouldSkipCache(g)

\* The key taken from the request as written, its query unsorted.
lookupPayload_rawQuery(g) ==
    [g EXCEPT !.key = Some(getCacheKey_rawQuery(g)), !.reads = @ + 1, !.pc = "lookup_payload"]

\* lines 22-27: derive the key and issue the payload read.
lookupPayload(g) ==
    [g EXCEPT !.key = Some(getCacheKey(g)), !.reads = @ + 1, !.pc = "lookup_payload"]

\* lines 11-27: everything up to the first await.
checkCacheStart(g) ==
    IF skipMethod(g) THEN next(g)
    ELSE IF skipDisabled THEN next(g)
    ELSE IF skipNoCache THEN next(g)
    ELSE IF skipRequested(g) THEN next(setStatusHeader(g, "MISS"))
    ELSE lookupPayload(g)

\* The catch block reporting HIT before it falls through.
payloadReadFailed_reportsHit(g) == next(setStatusHeader(g, "HIT"))

\* lines 28-32: the payload read threw.
payloadReadFailed(g) == next(setStatusHeader(g, "MISS"))

\* The miss branch ending without a call of next().
cacheMiss_noNext(g) == [setStatusHeader(g, "MISS") EXCEPT !.pc = "done"]

\* The miss branch without its diagnostic header.
cacheMiss_noHeader(g) == next(g)

\* lines 52-55
cacheMiss(g) == next(setStatusHeader(g, "MISS"))

\* lines 37-38: issue the expiry read.
lookupExpiry(g) == [g EXCEPT !.reads = @ + 1, !.pc = "lookup_expiry"]

\* A presence test that takes undefined for data.
payloadReadOk_servesAbsent(g, data) == lookupExpiry([g EXCEPT !.cachedData = data])

\* lines 27, 34, 52: the payload read resolved to data.
payloadReadOk(g, data) ==
    IF truthy(data)
    THEN lookupExpiry([g EXCEPT !.cachedData = data])
    ELSE cacheMiss([g EXCEPT !.cachedData = data])

\* The catch block missing: the read error leaves the handler.
expiryReadFailed_rethrow(g) == asyncHandlerCatch(g)

\* lines 39-43: the expiry read threw.
expiryReadFailed(g) == next(setStatusHeader(g, "MISS"))

\* The expiry timestamp itself taken for the remaining TTL.
cacheTTLOf_timestamp(cacheExpiryDate, t) ==
    IF cacheExpiryDate # None /\ The(cacheExpiryDate) # 0
    THEN Some(The(cacheExpiryDate))
    ELSE None

\* line 45
cacheTTLOf(cacheExpiryDate, t) ==
    IF cacheExpiryDate # None /\ The(cacheExpiryDate) # 0
    THEN Some(The(cacheExpiryDate) - t)
    ELSE None

\* getCacheControlHeader(req, ttl, globalCacheSettings, personalized): a
\* directive that carries the remaining TTL and the cacheability flags.
getCacheControlHeader(g, ttl, globalCacheSettings, personalized) ==
    [ttl |-> ttl, globalCacheSettings |-> globalCacheSettings, personalized |-> personalized]

\* The return before res.json missing: the handler answers and goes on.
serveFromCache_noReturn(g) ==
    LET h == setStatusHeader(
                [g EXCEPT !.cacheControl =
                              Some(getCacheControlHeader(g, g.cacheTTL, TRUE, TRUE)),
                          !.vary = Some("Origin, Cache-Control")],
                "HIT")
    IN next([h EXCEPT !.jsonCalls = @ + 1, !.body = h.cachedData])

\* The hit branch without its Vary header.
serveFromCache_noVary(g) ==
    LET h == setStatusHeader(
                [g EXCEPT !.cacheControl =
                              Some(getCacheControlHeader(g, g.cacheTTL, TRUE, TRUE))],
                "HIT")
    IN [h EXCEPT !.pc = "done", !.jsonCalls = @ + 1, !.body = h.cachedData]

\* lines 47-51
serveFromCache(g) ==
    LET h == setStatusHeader(
                [g EXCEPT !.cacheControl =
                              Some(getCacheControlHeader(g, g.cacheTTL, TRUE, TRUE)),
                          !.vary = Some("Origin, Cache-Control")],
                "HIT")
    IN [h EXCEPT !.pc = "done", !.jsonCalls = @ + 1, !.body = h.cachedData]

\* A gate that takes an entry without a future expiry for a miss.
expiryReadOk_missWhenStale(g, exp, t) ==
    LET h == [g EXCEPT !.cacheExpiryDate = exp, !.cacheTTL = cacheTTLOf(exp, t)]
    IN IF h.cacheTTL = None \/ The(h.cacheTTL) <= 0
       THEN cacheMiss(h)
       ELSE serveFromCache(h)

\* lines 38, 45-51: the expiry read resolved to exp at time t.
expiryReadOk(g, exp, t) ==
    serveFromCache([g EXCEPT !.cacheExpiryDate = exp,
                             !.cacheTTL = cacheTTLOf(exp, t)])

\* The latest published invalidation has reached every process and nothing
\* was cached since.
roundComplete ==
    /\ round.published
    /\ round.delivered = Procs

\* A request enters the middleware and runs to its first await.
GateStart(m, url, q, cc) ==
    /\ gate.pc \in {"idle", "done"}
    /\ LET g == checkCacheStart([IdleGate EXCEPT !.pc = "start",
                                                 !.method = m,
                                                 !.originalUrl = url,
                                                 !.query = q,
                                                 !.cacheControlReq = cc,
                                                 !.afterRound = roundComplete])
       IN gate' = IF g.pc = "lookup_payload"
                  THEN [g EXCEPT !.sinceSet = IF asSet(getCacheKey(g))
                                              THEN remaining(getCacheKey(g))
                                              ELSE None,
                                 !.sinceDeadline = deadlinePassed(getCacheKey(g))]
                  ELSE g
    /\ UNCHANGED <<env, cache, now, payloadRec, expiryRec, hook, lastCall, inbox, round, ctrl>>

\* await getCacheValue(cache, key) settles: the store answers or fails.
GatePayloadRead(fails) ==
    /\ gate.pc = "lookup_payload"
    /\ gate' = IF fails
               THEN payloadReadFailed([gate EXCEPT !.readFailed = TRUE])
               ELSE payloadReadOk([gate EXCEPT !.stored = payloadRec[getCacheKey(gate)]],
                                  payloadRec[The(gate.key)])
    /\ UNCHANGED <<env, cache, now, payloadRec, expiryRec, hook, lastCall, inbox, round, ctrl>>

\* A gate that deletes the payload it finds without an expiry record.
GateExpiryRead_evicts(fails) ==
    /\ gate.pc = "lookup_expiry"
    /\ gate' = IF fails
               THEN expiryReadFailed([gate EXCEPT !.readFailed = TRUE])
               ELSE expiryReadOk([gate EXCEPT !.expiryRead = TRUE,
                                              !.present = payloadRec[getCacheKey(gate)] # None,
                                              !.fresh = isFresh(getCacheKey(gate))],
                                 expiryRec[The(gate.key)], now)
    /\ payloadRec' = IF ~fails /\ expiryRec[The(gate.key)] = None
                     THEN [payloadRec EXCEPT ![The(gate.key)] = None]
                     ELSE payloadRec
    /\ UNCHANGED <<env, cache, now, expiryRec, hook, lastCall, inbox, round, ctrl>>

\* await getCacheValue(cache, `${key}__expires_at`) settles.
GateExpiryRead(fails) ==
    /\ gate.pc = "lookup_expiry"
    /\ gate' = IF fails
               THEN expiryReadFailed([gate EXCEPT !.readFailed = TRUE])
               ELSE expiryReadOk([gate EXCEPT !.expiryRead = TRUE,
                                              !.present = payloadRec[getCacheKey(gate)] # None,
                                              !.fresh = isFresh(getCacheKey(gate))],
                                 expiryRec[The(gate.key)], now)
    /\ UNCHANGED <<env, cache, now, payloadRec, expiryRec, hook, lastCall, inbox, round, ctrl>>

(* ------------------------- WebhooksService ----------------------------- *)

\* What messenger.publish can do: hand the message to the bus, throw, or
\* return a promise that rejects later.
PublishOutcomes == {"ok", "throws", "rejects"}

ReloadMessage == [channel |-> "webhooks", type |-> "reload"]

\* A publish that names the event as the contract does.
publish_invalidate(c, pub) ==
    LET called == [c EXCEPT !.publishes = @ + 1,
                            !.published = pub,
                            !.message = Some([channel |-> "webhooks", type |-> "invalidate"]),
                            !.earlyPublish = @ \/ ~c.superOk]
    IN IF pub = "throws"
       THEN [called EXCEPT !.state = "rejected"]
       ELSE called

\* this.messenger.publish('webhooks', { type: 'reload' }), not awaited and
\* not guarded: a throw leaves the method, a rejection does not.
publish(c, pub) ==
    LET called == [c EXCEPT !.publishes = @ + 1,
                            !.published = pub,
                            !.message = Some(ReloadMessage),
                            !.earlyPublish = @ \/ ~c.superOk]
    IN IF pub = "throws"
       THEN [called EXCEPT !.state = "rejected"]
       ELSE called

\* return result
returnResult(c) ==
    IF c.state = "rejected" THEN c ELSE [c EXCEPT !.state = "returned", !.result = Some("pk")]

\* const result = await super.m(...): its rejection leaves the method.
awaitSuper(c, superOk) ==
    IF superOk THEN [c EXCEPT !.superOk = TRUE] ELSE [c EXCEPT !.state = "rejected"]

\* The await missing: publish runs before the mutation has settled.
createOne_publishFirst(superOk, pub) ==
    LET c == publish(NewCall, pub)
    IN IF c.state = "rejected" THEN c
       ELSE LET a == awaitSuper(c, superOk)
            IN IF a.state = "rejected" THEN a ELSE returnResult(a)

\* lines 13-17
createOne(superOk, pub) ==
    LET a == awaitSuper(NewCall, superOk)
    IN IF a.state = "rejected" THEN a ELSE returnResult(publish(a, pub))

\* lines 19-23
createMany(superOk, pub) ==
    LET a == awaitSuper(NewCall, superOk)
    IN IF a.state = "rejected" THEN a ELSE returnResult(publish(a, pub))

\* lines 25-29
updateMany(superOk, pub) ==
    LET a == awaitSuper(NewCall, superOk)
    IN IF a.state = "rejected" THEN a ELSE returnResult(publish(a, pub))

\* The publish line missing.
deleteMany_noPublish(superOk, pub) ==
    LET a == awaitSuper(NewCall, superOk)
    IN IF a.state = "rejected" THEN a ELSE returnResult(a)

\* lines 31-35
deleteMany(superOk, pub) ==
    LET a == awaitSuper(NewCall, superOk)
    IN IF a.state = "rejected" THEN a ELSE returnResult(publish(a, pub))

\* Inherited entry points reach the overridden method of their kind.
updateOne(superOk, pub) == updateMany(superOk, pub)

deleteOne(superOk, pub) == deleteMany(superOk, pub)

dispatch(method, superOk, pub) ==
    CASE method = "createOne" -> createOne(superOk, pub)
      [] method = "createMany" -> createMany(superOk, pub)
      [] method = "updateMany" -> updateMany(superOk, pub)
      [] method = "deleteMany" -> deleteMany(superOk, pub)
      [] method = "updateOne" -> updateOne(superOk, pub)
      [] method = "deleteOne" -> deleteOne(superOk, pub)

\* A caller invokes a mutation method; it suspends at await super.m(...).
HookCall(m) ==
    /\ hook.pc = "idle"
    /\ hook.calls < MaxCalls
    /\ hook' = [pc |-> "awaitSuper", method |-> m, calls |-> hook.calls + 1]
    /\ lastCall' = NewCall
    /\ UNCHANGED <<env, cache, now, payloadRec, expiryRec, gate, inbox, round, ctrl>>

\* The underlying mutation settles and the method runs to its end. A
\* message the bus accepted reaches the processes in receivers; delivery
\* is best-effort, the others miss it.
HookSettle(superOk, pub, receivers) ==
    /\ hook.pc = "awaitSuper"
    /\ hook' = [hook EXCEPT !.pc = "idle", !.method = IdleHook.method]
    /\ lastCall' = dispatch(hook.method, superOk, pub)
    /\ IF lastCall'.publishes > 0 /\ lastCall'.published = "ok"
       THEN /\ inbox' = [p \in Procs |-> IF p \in receivers THEN lastCall'.message ELSE None]
            /\ round' = [published |-> TRUE, delivered |-> {},
                         cached |-> {k \in Keys : payloadRec[k] # None}]
       ELSE UNCHANGED <<inbox, round>>
    /\ UNCHANGED <<env, cache, now, payloadRec, expiryRec, gate, ctrl>>

(* --------------------------- invalidation bus -------------------------- *)

\* The subscriber's handler: evict what the message's topic implicates, by
\* default everything.
onMessage(msg) ==
    /\ payloadRec' = [k \in Keys |-> None]
    /\ expiryRec' = [k \in Keys |-> None]

\* Process p receives the message published to it and runs its handler.
Deliver(p) ==
    /\ inbox[p] # None
    /\ onMessage(The(inbox[p]))
    /\ gate' = disturbedUnder(liveKeys)
    /\ inbox' = [inbox EXCEPT ![p] = None]
    /\ round' = [round EXCEPT !.delivered = @ \cup {p}]
    /\ UNCHANGED <<env, cache, now, hook, lastCall, ctrl>>

(* ----------------------- permissions controller ------------------------ *)

\* What service.readOne / readMany resolved to.
Items == {None, Some("item")}

\* How a read-back can fail.
ReadErrors == {"forbidden", "other"}

\* lines 25-31, 111-118, 144: the service method that writes.
mutationOf(route, body) ==
    CASE route = "POST /" -> IF body = "array" THEN "createMany" ELSE "createOne"
      [] route = "PATCH /" ->
            IF body = "array" THEN "updateBatch"
            ELSE IF body = "keys" THEN "updateMany"
            ELSE "updateByQuery"
      [] route = "PATCH /:pk" -> "updateOne"

\* lines 34-40, 121, 147: the service method that reads back.
readBackOf(route, body) ==
    CASE route = "POST /" -> IF body = "array" THEN "readMany" ELSE "readOne"
      [] route = "PATCH /" -> "readMany"
      [] route = "PATCH /:pk" -> "readOne"

\* lines 36, 39, 122, 148: res.locals['payload'] = { data: ... }
payloadOf(route, item) ==
    IF route = "PATCH /:pk" /\ item = None
    THEN [data |-> Some("null")]
    ELSE [data |-> item]

\* return next()
ctrlNext(c) == [c EXCEPT !.pc = "done", !.nextCalls = @ + 1]

\* throw: asyncHandler passes the rejection on as next(err).
ctrlThrow(c) == [c EXCEPT !.pc = "done", !.nextCalls = @ + 1, !.nextError = TRUE]

\* The write rejected: the handler is left before its try block.
mutationFailed(c) == ctrlThrow([c EXCEPT !.mutated = "failed"])

\* The write resolved: the handler enters the try block and reads back.
mutationOk(c) ==
    [c EXCEPT !.mutated = "ok",
              !.applied = TRUE,
              !.readBack = readBackOf(c.route, c.body),
              !.pc = "readBack"]

\* A catch block that lets every error through.
readBackFailed_rethrowAll(c, error) ==
    ctrlThrow([c EXCEPT !.readFailed = error])

\* lines 41-47, 123-129, 149-155: the catch block.
readBackFailed(c, error) ==
    IF error = "forbidden"
    THEN ctrlNext([c EXCEPT !.readFailed = error])
    ELSE ctrlThrow([c EXCEPT !.readFailed = error])

\* The read-back resolved: payload set, then return next().
readBackOk(c, item) ==
    ctrlNext([c EXCEPT !.payload = Some(payloadOf(c.route, item))])

\* A request reaches one of the three handlers, which awaits the write.
CtrlRequest(route, body) ==
    /\ ctrl.pc \in {"idle", "done"}
    /\ ctrl' = [IdleCtrl EXCEPT !.pc = "mutate",
                                !.route = route,
                                !.body = body,
                                !.mutation = mutationOf(route, body)]
    /\ UNCHANGED <<env, cache, now, payloadRec, expiryRec, gate, hook, lastCall, inbox, round>>

\* await service.create* / update* settles.
CtrlMutationSettles(ok) ==
    /\ ctrl.pc = "mutate"
    /\ ctrl' = IF ok THEN mutationOk(ctrl) ELSE mutationFailed(ctrl)
    /\ UNCHANGED <<env, cache, now, payloadRec, expiryRec, gate, hook, lastCall, inbox, round>>

\* await service.readOne / readMany resolves (readMany to a list, readOne
\* to an item or to nothing).
CtrlReadBackResolves(item) ==
    /\ ctrl.pc = "readBack"
    /\ ctrl.readBack = "readMany" => item # None
    /\ ctrl' = readBackOk(ctrl, item)
    /\ UNCHANGED <<env, cache, now, payloadRec, expiryRec, gate, hook, lastCall, inbox, round>>

\* await service.readOne / readMany rejects.
CtrlReadBackRejects(error) ==
    /\ ctrl.pc = "readBack"
    /\ ctrl' = readBackFailed(ctrl, error)
    /\ UNCHANGED <<env, cache, now, payloadRec, expiryRec, gate, hook, lastCall, inbox, round>>

(* --------------------------- specifications ---------------------------- *)

GateNext ==
    \/ \E m \in Methods, t \in Targets, cc \in RequestCacheControl :
          GateStart(m, t.originalUrl, t.query, cc)
    \/ \E fails \in BOOLEAN : GatePayloadRead(fails)
    \/ \E fails \in BOOLEAN : GateExpiryRead(fails)

StoreNext ==
    \/ \E k \in FillKeys, p \in Payloads, ttl \in 1..MaxTtl : CacheFill(k, p, ttl)
    \/ \E k \in Keys : CacheDelete(k)
    \/ \E k \in Keys : ExpirePayload(k)
    \/ \E k \in Keys : ExpireExpiry(k)
    \/ Tick

HookNext ==
    \/ \E m \in ServiceMethods : HookCall(m)
    \/ \E superOk \in BOOLEAN, pub \in PublishOutcomes, receivers \in SUBSET Procs :
          HookSettle(superOk, pub, receivers)

BusNext == \E p \in Procs : Deliver(p)

CtrlNext ==
    \/ \E route \in Routes, body \in Bodies : CtrlRequest(route, body)
    \/ \E ok \in BOOLEAN : CtrlMutationSettles(ok)
    \/ \E item \in Items : CtrlReadBackResolves(item)
    \/ \E error \in ReadErrors : CtrlReadBackRejects(error)

Next == GateNext \/ StoreNext \/ HookNext \/ BusNext

\* The whole system: gate, store, mutation hook and bus.
Spec == Init /\ [][Next]_vars

\* The read path: the gate against a store that is filled, evicted and aged.
GateSpec == Init /\ [][GateNext \/ StoreNext]_vars

\* The read path where every store read the gate awaits settles, by an
\* answer or by an error.
GateFairSpec ==
    /\ GateSpec
    /\ WF_vars(\E fails \in BOOLEAN : GatePayloadRead(fails))
    /\ WF_vars(\E fails \in BOOLEAN : GateExpiryRead(fails))

\* The write path: the mutation hook and the bus.
HookSpec == Init /\ [][HookNext \/ BusNext]_vars

\* The permissions controller's writing handlers.
CtrlSpec == Init /\ [][CtrlNext]_vars

(* ------------------------------- claims -------------------------------- *)

statusConfigured == env.CACHE_STATUS_HEADER # ""

\* The gate fell through: next() once, without an error, and no response.
fellThrough(g) ==
    /\ g.pc = "done"
    /\ g.nextCalls = 1
    /\ ~g.nextError
    /\ g.jsonCalls = 0
    /\ g.body = None

\* The diagnostic header says MISS when a header is configured, and there is
\* no diagnostic header otherwise.
reportsMiss(g) ==
    g.statusHeader = IF statusConfigured THEN Some("MISS") ELSE None

\* C1: a request whose read of the payload key or of the expiry key failed
\* falls through to next() without an error, with status MISS when the header
\* is configured, and is never answered from the cache.
C1_FailOpenOnStoreRead ==
    gate.readFailed => fellThrough(gate) /\ reportsMiss(gate)

\* The expiry read failed while the payload was already in hand.
C1_Witness ==
    /\ gate.pc = "done"
    /\ gate.readFailed
    /\ gate.cachedData = Some("P1")
    /\ gate.statusHeader = Some("MISS")

\* The gate read a payload and then an expiry record that is absent or not
\* in the future.
staleHit(g) == g.pc = "done" /\ g.expiryRead /\ ~g.fresh

C3_HitServesStoredPayload ==
    gate.jsonCalls > 0 =>
        /\ gate.pc = "done"
        /\ gate.jsonCalls = 1
        /\ gate.stored # None
        /\ gate.body = gate.stored
        /\ gate.nextCalls = 0

C3_Witness ==
    /\ gate.pc = "done"
    /\ gate.jsonCalls = 1
    /\ gate.body = Some("P1")
    /\ gate.fresh

\* C4: a request that starts after a mutation's message has reached every
\* process, with nothing cached since, and asks for a key cached before the
\* mutation finds no entry, reports MISS and falls through.
C4_MissAfterInvalidation ==
    (gate.pc = "done" /\ gate.afterRound /\ getCacheKey(gate) \in round.cached) =>
        /\ fellThrough(gate)
        /\ gate.statusHeader # Some("HIT")
        /\ gate.reads > 0 => reportsMiss(gate)
        /\ (gate.reads > 0 /\ ~gate.readFailed) => gate.stored = None

\* Such a request looked its key up and reported MISS.
C4_Witness ==
    /\ gate.pc = "done"
    /\ gate.afterRound
    /\ getCacheKey(gate) \in round.cached
    /\ gate.reads = 1
    /\ ~gate.readFailed
    /\ gate.statusHeader = Some("MISS")

\* The latest call has settled.
settled == hook.pc = "idle" /\ lastCall.state # "pending"

C6_PublishOnlyAfterSuccess ==
    /\ hook.pc = "awaitSuper" => lastCall.publishes = 0
    /\ lastCall.publishes > 0 => lastCall.superOk /\ ~lastCall.earlyPublish
    /\ (settled /\ ~lastCall.superOk) => lastCall.publishes = 0 /\ lastCall.published = "none"

\* The underlying mutation failed and the call ended without a publish.
C6_Witness ==
    /\ settled
    /\ ~lastCall.superOk
    /\ lastCall.state = "rejected"
    /\ lastCall.publishes = 0

\* C7 as claimed: when publish fails after the mutation succeeded, the method
\* still returns the mutation's result and raises no error.
C7_PublishFailureIsSwallowed ==
    (settled /\ lastCall.superOk /\ lastCall.published \in {"throws", "rejects"}) =>
        /\ lastCall.state = "returned"
        /\ lastCall.result # None

\* The request carries the bypass directive.
bypassRequested(g) == g.pc # "idle" /\ g.cacheControlReq = Some("no-store")

\* Nothing before the bypass check turns the request away.
cacheable(g) ==
    /\ env.CACHE_ENABLED
    /\ cache
    /\ g.method = "GET" \/ (g.originalUrl # None /\ startsWith(The(g.originalUrl), GraphqlPrefix))

\* C8: a request with the bypass directive falls through and is never
\* answered from the cache; where the gate reports a status it is MISS.
C8_BypassYieldsMiss ==
    bypassRequested(gate) =>
        /\ fellThrough(gate)
        /\ gate.statusHeader # Some("HIT")
        /\ cacheable(gate) => reportsMiss(gate)

\* A bypassed request whose key holds a valid, unexpired entry.
C8_Witness ==
    /\ bypassRequested(gate)
    /\ cacheable(gate)
    /\ payloadRec[getCacheKey(gate)] = Some("P1")
    /\ isFresh(getCacheKey(gate))
    /\ gate.statusHeader = Some("MISS")
    /\ gate.nextCalls = 1

\* The request is one the skip policy turns away: caching disabled, no store
\* instance, a verb other than GET on a URL outside /graphql, or the bypass
\* directive.
bypassed(g) ==
    /\ g.pc # "idle"
    /\ \/ ~env.CACHE_ENABLED
       \/ ~cache
       \/ g.cacheControlReq = Some("no-store")
       \/ /\ g.method # "GET"
          /\ g.originalUrl # None
          /\ ~startsWith(The(g.originalUrl), GraphqlPrefix)

\* C9: a bypassed request falls through without a single store read.
C9_SkipBeforeStoreRead ==
    bypassed(gate) => gate.reads = 0 /\ fellThrough(gate)

\* Caching is disabled while the store holds the request's key.
C9_Witness ==
    /\ bypassed(gate)
    /\ ~env.CACHE_ENABLED
    /\ cache
    /\ gate.method = "GET"
    /\ gate.cacheControlReq = None
    /\ payloadRec[getCacheKey(gate)] # None
    /\ gate.reads = 0
    /\ gate.nextCalls = 1

\* C10 as claimed: a request with a verb other than GET whose URL does not
\* begin with /graphql, an undefined URL included, falls through with no key
\* derived and no store read.
C10_NonGetBypasses ==
    ( /\ gate.pc # "idle"
      /\ gate.method # "GET"
      /\ ~(gate.originalUrl # None /\ startsWith(The(gate.originalUrl), GraphqlPrefix)) ) =>
        /\ gate.key = None
        /\ gate.reads = 0
        /\ fellThrough(gate)

\* The gate answered from the cache: one res.json, no next(), and the status
\* header HIT when one is configured.
servedFromCache(g) ==
    /\ g.pc = "done"
    /\ g.jsonCalls = 1
    /\ g.nextCalls = 0
    /\ g.statusHeader = IF statusConfigured THEN Some("HIT") ELSE None

\* C11: a request whose lookup begins on an entry as set(key, payload, ttl)
\* left it, with ttl > 0 not yet elapsed and the key untouched while the
\* request is in flight, is answered from the cache with status HIT and the
\* stored payload, and the remaining TTL it reports is at most what was left
\* of ttl when the lookup began (so at most ttl).
C11_HitRightAfterSet ==
    (gate.pc = "done" /\ gate.sinceSet # None /\ ~gate.readFailed) =>
        /\ servedFromCache(gate)
        /\ gate.body # None
        /\ gate.body = gate.stored
        /\ gate.cacheTTL # None
        /\ The(gate.cacheTTL) <= The(gate.sinceSet)
        /\ gate.cacheControl # None
        /\ The(gate.cacheControl).ttl = gate.cacheTTL

\* The entry was set at time 1 with ttl 1 and read at once: the reported
\* remaining TTL is the whole ttl.
C11_Witness ==
    /\ servedFromCache(gate)
    /\ gate.sinceSet = Some(1)
    /\ gate.cacheExpiryDate = Some(2)
    /\ gate.cacheTTL = Some(1)
    /\ gate.body = Some("P2")
    /\ gate.statusHeader = Some("HIT")

C13_PairOrMiss ==
    (gate.pc = "done" /\ ~gate.readFailed) =>
        \/ fellThrough(gate) /\ reportsMiss(gate)
        \/ fellThrough(gate) /\ gate.reads = 0
        \/ gate.cachedData # None /\ gate.cacheExpiryDate # None

\* Two queries carry the same parameters, in whatever order.
sameParams(q1, q2) ==
    /\ Len(q1) = Len(q2)
    /\ {q1[i] : i \in 1..Len(q1)} = {q2[i] : i \in 1..Len(q2)}

\* The request g with its query written as q.
withQuery(g, q) == [g EXCEPT !.query = q]

C15_CacheHeadersOnlyOnHit ==
    /\ gate.jsonCalls > 0 =>
            /\ gate.cacheControl =
                   Some([ttl |-> gate.cacheTTL, globalCacheSettings |-> TRUE, personalized |-> TRUE])
            /\ gate.cacheTTL # None <=> gate.cacheExpiryDate # None
            /\ gate.vary = Some("Origin, Cache-Control")
    /\ gate.jsonCalls = 0 =>
            /\ gate.cacheControl = None
            /\ gate.vary = None

\* A hit on a fresh entry: remaining TTL 1 in the Cache-Control header.
C15_Witness ==
    /\ servedFromCache(gate)
    /\ gate.cacheExpiryDate = Some(1)
    /\ gate.cacheControl =
           Some([ttl |-> Some(1), globalCacheSettings |-> TRUE, personalized |-> TRUE])
    /\ gate.vary = Some("Origin, Cache-Control")

\* The messages the hook has handed to messenger.publish or that are on
\* their way to a process.
publishedMessages ==
    lastCall.message \cup UNION {inbox[p] : p \in Procs}

\* C16 as claimed: every message the hook publishes goes to the channel of
\* the mutated resource family, webhooks, and carries type "invalidate".
C16_PublishesInvalidate ==
    \A msg \in publishedMessages :
        msg.channel = "webhooks" /\ msg.type = "invalidate"

\* C16 amended: every such message goes to the channel webhooks and carries
\* type "reload"; a call that reached publish handed over exactly that.
C16_PublishesReload ==
    /\ \A msg \in publishedMessages :
            msg.channel = "webhooks" /\ msg.type = "reload"
    /\ lastCall.publishes > 0 => lastCall.message # None

\* An update went through and its message is on the way to both processes.
C16_Witness ==
    /\ settled
    /\ lastCall.superOk
    /\ lastCall.message = Some([channel |-> "webhooks", type |-> "reload"])
    /\ \A p \in Procs : inbox[p] = lastCall.message

\* C17: in POST /, PATCH / and PATCH /:pk of the permissions controller a
\* ForbiddenException from the read-back after a successful write ends in one
\* next() without an error, no payload set and the write still applied; any
\* other read-back error ends in next(err); a failed write ends in next(err)
\* with no read-back attempted.
C17_ForbiddenReadBackIsTolerated ==
    ctrl.pc = "done" =>
        /\ ctrl.nextCalls = 1
        /\ (ctrl.mutated = "ok" /\ ctrl.readFailed = "forbidden") =>
                /\ ~ctrl.nextError
                /\ ctrl.payload = None
                /\ ctrl.applied
        /\ (ctrl.mutated = "ok" /\ ctrl.readFailed = "other") =>
                /\ ctrl.nextError
                /\ ctrl.payload = None
        /\ ctrl.mutated = "failed" =>
                /\ ctrl.nextError
                /\ ctrl.readBack = "none"
                /\ ctrl.payload = None
                /\ ~ctrl.applied
        /\ ctrl.mutated # "no"

\* PATCH / with keys: updateMany went through, readMany was forbidden.
C17_Witness ==
    /\ ctrl.pc = "done"
    /\ ctrl.route = "PATCH /"
    /\ ctrl.mutation = "updateMany"
    /\ ctrl.readBack = "readMany"
    /\ ctrl.readFailed = "forbidden"
    /\ ctrl.applied
    /\ ctrl.nextCalls = 1
    /\ ~ctrl.nextError
    /\ ctrl.payload = None

\* The request is suspended at one of its two store reads.
inFlight(g) == g.pc \in {"lookup_payload", "lookup_expiry"}

\* C18: every request that enters the gate ends with exactly one terminal
\* action, one next() or one res.json, never both and never neither: none
\* while a store read is pending, exactly one once the handler has returned,
\* and a pending read always leads to the handler returning.
C18_ExactlyOneTerminal ==
    /\ [](gate.pc \in {"idle", "lookup_payload", "lookup_expiry", "done"})
    /\ [](inFlight(gate) => gate.nextCalls = 0 /\ gate.jsonCalls = 0)
    /\ [](gate.pc = "done" =>
            \/ gate.nextCalls = 1 /\ gate.jsonCalls = 0
            \/ gate.nextCalls = 0 /\ gate.jsonCalls = 1)
    /\ (inFlight(gate) ~> gate.pc = "done")

\* Both endings occur; here the one after a failed expiry read.
C18_Witness ==
    /\ gate.pc = "done"
    /\ gate.readFailed
    /\ gate.reads = 2
    /\ gate.nextCalls = 1
    /\ gate.jsonCalls = 0

\* C19: no step of the gate, on any branch, writes or deletes a payload or an
\* expiry record: the store is the same after the step as before it.
C19_GateLeavesStoreAlone ==
    [][GateNext => UNCHANGED <<payloadRec, expiryRec>>]_vars

\* The gate has served a payload that has no expiry record, and the payload
\* is still stored as it was.
C19_Witness ==
    /\ gate.pc = "done"
    /\ gate.expiryRead
    /\ gate.cacheExpiryDate = None
    /\ gate.jsonCalls = 1
    /\ payloadRec[getCacheKey(gate)] = gate.body
    /\ gate.body # None
    /\ expiryRec[getCacheKey(gate)] = None

\* C20: with a diagnostic header configured, the header of a request is HIT
\* exactly when the request was answered from the cache; a request that fell
\* through never carries HIT and a request answered from the cache never
\* carries MISS; with no header configured the gate sets none.
C20_HitIffServed ==
    /\ statusConfigured => (gate.statusHeader = Some("HIT") <=> gate.jsonCalls = 1)
    /\ gate.nextCalls > 0 => gate.statusHeader # Some("HIT")
    /\ gate.jsonCalls > 0 => gate.statusHeader # Some("MISS")
    /\ ~statusConfigured => gate.statusHeader = None

\* A stale entry served: HIT, not MISS, on the response from the cache.
C20_Witness ==
    /\ statusConfigured
    /\ gate.pc = "done"
    /\ gate.jsonCalls = 1
    /\ gate.nextCalls = 0
    /\ gate.statusHeader = Some("HIT")
    /\ gate.expiryRead
    /\ ~gate.fresh

====
